---- MODULE Spec2Model ----
(***************************************************************************)
(* Model of the session holder (AuthProvider, context/AuthContext.tsx),    *)
(* the auth modal (components/AuthModal.tsx) and the landing page          *)
(* (pages/Index.tsx) of nebula-agent-studio.                               *)
(*                                                                         *)
(* JavaScript strings are sequences of one-character strings, so that      *)
(* split, toLowerCase, replace and the JSON round trip are computed.       *)
(* null is the record Null; objects are records with other fields.        *)
(***************************************************************************)
EXTENDS Integers, Sequences, FiniteSets, TLC

VARIABLES
    isSupabaseConfigured, \* lib/supabase flag imported by AuthContext
    phase,                \* "created" | "mounted" | "unmounted"
    user, session, isLoading, demoUser,        \* AuthProvider useState slots
    localStorage,         \* function from keys to stored strings
    getSessionReq,        \* "none" | "pending" | "done"
    subscribed,           \* onAuthStateChange subscription registered
    inflight,             \* provider calls awaiting their result
    mIsLoading, mError,   \* AuthModal useState slots
    showCLI, showAuthModal,                    \* Index useState slots
    unhandled,            \* rejections no handler caught
    nSubscribe, nUnsubscribe,                  \* calls of onAuthStateChange and of unsubscribe (history)
    lastCall,             \* the demo-mode facade call that returned last (history)
    displayName,          \* userName prop last given to Navbar
    messages, input, isTyping,                 \* CLIPanel useState slots
    chatMounted,          \* Index renders <CLIPanel />
    timers,               \* setTimeout callbacks of the mounted CLIPanel not yet run
    orphans,              \* setTimeout callbacks of unmounted CLIPanels not yet run
    lastPayload,          \* session of the getSession response or notification processed last (history)
    ev                    \* the step taken last (history)

vars == <<isSupabaseConfigured, phase, user, session, isLoading, demoUser,
          localStorage, getSessionReq, subscribed, inflight,
          mIsLoading, mError, showCLI, showAuthModal, unhandled, lastPayload, ev,
          displayName, messages, input, isTyping, nSubscribe, nUnsubscribe,
          lastCall, chatMounted, timers, orphans>>

viewVars == <<displayName>>
chatVars == <<messages, input, isTyping, chatMounted, timers, orphans>>
subCounts == <<nSubscribe, nUnsubscribe>>

----------------------------------------------------------------------------
(* Bounds *)

MaxInFlight == 2      \* provider calls in flight at once
MaxMessages == 5      \* messages the chat panel lists
MaxOrphans == 2       \* timers of unmounted chat panels not yet run

----------------------------------------------------------------------------
(* Values *)

Null == [isNull |-> TRUE]

(* no getSession response or notification with a session payload was processed yet *)
NoPayload == [none |-> TRUE]

Truthy(v) == v # Null

(* a property that is not there *)
Undefined == [isUndefined |-> TRUE]

(* a string where null or undefined may stand as well *)
Str(s) == [str |-> s]

(* JavaScript truthiness of a string, null or undefined *)
JSTruthy(v) == v # Null /\ v # Undefined /\ v # Str(<<>>)

(* a || b *)
OrElse(a, b) == IF JSTruthy(a) THEN a ELSE b

(* the Navbar has not been rendered yet *)
Unset == [unset |-> TRUE]

(* the strings the inputs are drawn from *)
sAda == <<"a", "d", "a">>
sAtX == <<"@", "x">>
EmailAda == sAda \o sAtX                          \* ada@x
EmailNoAt == <<"b", "o", "b">>                    \* bob
EmailTwoAt == <<"a", "@", "b", "@", "c">>         \* a@b@c
NameAda == <<"A", "d", "a">>                      \* Ada
NameQuote == <<"A", " ", "\"", "\\">>             \* A "\
Emails == {EmailAda, EmailNoAt, EmailTwoAt}
Names == {NameAda, NameQuote}
Passwords == {"abc", "xyz"}
OAuthProviders == {<<"g", "o", "o", "g", "l", "e">>, <<"g", "i", "t", "h", "u", "b">>}

(* String.prototype.split(sep)[0]: the part before the first sep *)
RECURSIVE SplitFirst(_, _)
SplitFirst(s, sep) ==
    IF s = <<>> \/ Head(s) = sep THEN <<>>
    ELSE <<Head(s)>> \o SplitFirst(Tail(s), sep)

UpperOf(c) ==
    CASE c = "a" -> "A" [] c = "b" -> "B" [] c = "d" -> "D"
      [] c = "g" -> "G" [] c = "u" -> "U"
      [] OTHER -> c

LowerOf(c) ==
    CASE c = "A" -> "a" [] c = "B" -> "b" [] c = "D" -> "d"
      [] c = "G" -> "g" [] c = "U" -> "u"
      [] OTHER -> c

toUpperCase(s) == [i \in 1..Len(s) |-> UpperOf(s[i])]
toLowerCase(s) == [i \in 1..Len(s) |-> LowerOf(s[i])]

(* s.replace(/\s/g, '') *)
RECURSIVE StripWhitespace(_)
StripWhitespace(s) ==
    IF s = <<>> THEN <<>>
    ELSE IF Head(s) = " " THEN StripWhitespace(Tail(s))
    ELSE <<Head(s)>> \o StripWhitespace(Tail(s))

(* provider.charAt(0).toUpperCase() + provider.slice(1) *)
Capitalize(s) ==
    IF s = <<>> THEN <<>> ELSE toUpperCase(<<Head(s)>>) \o Tail(s)

----------------------------------------------------------------------------
(* JSON.stringify / JSON.parse of a {name, email} object *)

kName == <<"n", "a", "m", "e">>
kEmail == <<"e", "m", "a", "i", "l">>

RECURSIVE JSONEscape(_)
JSONEscape(s) ==
    IF s = <<>> THEN <<>>
    ELSE (IF Head(s) \in {"\"", "\\"} THEN <<"\\", Head(s)>> ELSE <<Head(s)>>)
         \o JSONEscape(Tail(s))

JSONQuote(s) == <<"\"">> \o JSONEscape(s) \o <<"\"">>

JSONstringify(o) ==
    <<"{">> \o JSONQuote(kName) \o <<":">> \o JSONQuote(o.name) \o <<",">>
            \o JSONQuote(kEmail) \o <<":">> \o JSONQuote(o.email) \o <<"}">>

(* reads a string literal whose opening quote is at t[i - 1] *)
RECURSIVE JSONReadString(_, _, _)
JSONReadString(t, i, acc) ==
    IF t[i] = "\"" THEN [val |-> acc, next |-> i + 1]
    ELSE IF t[i] = "\\" THEN JSONReadString(t, i + 2, Append(acc, t[i + 1]))
    ELSE JSONReadString(t, i + 1, Append(acc, t[i]))

(* reads the members "key":"value",... from t[i] on, up to the closing brace *)
RECURSIVE JSONReadMembers(_, _, _)
JSONReadMembers(t, i, acc) ==
    LET k == JSONReadString(t, i + 1, <<>>)
        v == JSONReadString(t, k.next + 2, <<>>)
        members == acc \cup {<<k.val, v.val>>}
    IN IF t[v.next] = "," THEN JSONReadMembers(t, v.next + 1, members)
       ELSE members

JSONMember(members, key) == (CHOOSE m \in members : m[1] = key)[2]

JSONparse(t) ==
    LET members == JSONReadMembers(t, 2, {})
    IN [name |-> JSONMember(members, kName), email |-> JSONMember(members, kEmail)]

----------------------------------------------------------------------------
(* Provider values: users, sessions, errors *)

U1 == [id |-> "u1", email |-> EmailAda]
U2 == [id |-> "u2", email |-> EmailNoAt]
Users == {U1, U2}
Sessions == {[access_token |-> "t1", user |-> U1], [access_token |-> "t2", user |-> U2]}

(* what the provider reports: AuthError objects, which are Error instances *)
AuthErrors == {[isError |-> TRUE, message |-> "Invalid credentials"],
               [isError |-> TRUE, message |-> "Network failure"]}

(* variant: setUser(null) whatever the session *)
SessionUserDropped(s) == Null

(* session?.user ?? null *)
SessionUser(s) == IF s = Null THEN Null ELSE s.user

----------------------------------------------------------------------------
(* localStorage *)

DemoKey == "demo_user"

(* variant: the record is looked up under another key *)
getItemOtherKey(store, k) == IF "demoUser" \in DOMAIN store THEN store["demoUser"] ELSE Null

getItem(store, k) == IF k \in DOMAIN store THEN store[k] ELSE Null

setItem(store, k, v) == [x \in DOMAIN store \cup {k} |-> IF x = k THEN v ELSE store[x]]

removeItem(store, k) == [x \in DOMAIN store \ {k} |-> store[x]]

EmptyStorage == [x \in {} |-> <<>>]

(* what an earlier run of the page can have left in localStorage *)
EarlierDemoUsers == {[name |-> NameQuote, email |-> EmailAda],
                     [name |-> <<>>, email |-> sAtX]}
InitialStorages ==
    {EmptyStorage} \cup {setItem(EmptyStorage, DemoKey, JSONstringify(d)) : d \in EarlierDemoUsers}

----------------------------------------------------------------------------
(* Derived values of the context (AuthContext value) *)

IsLoggedInOf(u, d) == Truthy(u) \/ Truthy(d)
isLoggedIn == IsLoggedInOf(user, demoUser)
isDemoMode == ~isSupabaseConfigured

(* Index useEffect on [isLoggedIn]: runs after a render in which isLoggedIn
   changed and shows the chat panel when it is now true *)
ShowCLIEffect(wasLoggedIn, nowLoggedIn, cli) ==
    IF wasLoggedIn # nowLoggedIn /\ nowLoggedIn THEN TRUE ELSE cli

----------------------------------------------------------------------------
(* History record of the step taken last *)

Ev(kind, op, caller) ==
    [kind |-> kind, op |-> op, caller |-> caller, invoked |-> "none",
     form |-> Null, args |-> Null, payload |-> Null, error |-> Null, thrown |-> Null, demo |-> Null,
     calls |-> <<>>]

(* the event of a facade call: it has returned (demo mode) or it is now
   waiting for the provider (configured mode) *)
FacadeEv(op, caller, demo) ==
    IF ~isSupabaseConfigured
    THEN [Ev("return", op, caller) EXCEPT !.demo = demo]
    ELSE Ev("call", op, caller)

(* no facade call has returned in demo mode *)
NoCall == [op |-> "none", demo |-> Null]

(* the facade call that returned last, across reloads of the page *)
LastCallAfter(e) ==
    IF ~isSupabaseConfigured /\ e.kind = "return"
    THEN [op |-> e.op, demo |-> e.demo]
    ELSE lastCall

----------------------------------------------------------------------------
(* getUserDisplayName *)

sEmpty == <<>>
sUserLiteral == <<"U", "s", "e", "r">>

(* x?.f *)
OptField(x, f) == IF x = Null \/ x = Undefined THEN Undefined ELSE x[f]

(* user.email?.split('@')[0] *)
EmailLocalPart(email) ==
    IF email = Null \/ email = Undefined THEN Undefined ELSE Str(SplitFirst(email.str, "@"))

(* variant: name is looked up before full_name *)
getUserDisplayNameSwapped(u, d) ==
    IF Truthy(d) THEN Str(d.name)
    ELSE IF ~Truthy(u) THEN Str(sEmpty)
    ELSE OrElse(OptField(u.user_metadata, "name"),
         OrElse(OptField(u.user_metadata, "full_name"),
         OrElse(OptField(u.user_metadata, "preferred_username"),
         OrElse(EmailLocalPart(u.email), Str(sUserLiteral)))))

getUserDisplayName(u, d) ==
    IF Truthy(d) THEN Str(d.name)
    ELSE IF ~Truthy(u) THEN Str(sEmpty)
    ELSE OrElse(OptField(u.user_metadata, "full_name"),
         OrElse(OptField(u.user_metadata, "name"),
         OrElse(OptField(u.user_metadata, "preferred_username"),
         OrElse(EmailLocalPart(u.email), Str(sUserLiteral)))))

(* the inputs of getUserDisplayName *)
sFullName == <<"G", " ", "H">>
sMetaName == <<"g", "h">>
sPreferred == <<"g", "p">>
MetaOpt(v) == {Undefined, Str(sEmpty), Str(v)}
Metadatas ==
    {Undefined} \cup
    [full_name : MetaOpt(sFullName), name : MetaOpt(sMetaName),
     preferred_username : MetaOpt(sPreferred)]
DisplayUsers ==
    [id : {"u1"}, email : {Undefined, Str(sEmpty), Str(sAtX), Str(<<"g", "@", "x">>)},
     user_metadata : Metadatas]
DisplayDemoUsers ==
    {[name |-> NameAda, email |-> EmailAda], [name |-> sEmpty, email |-> sAtX]}

----------------------------------------------------------------------------
(* CLIPanel *)

initialMessages ==
    <<[type |-> "agent", content |-> <<"Welcome to Agentic CLI. How can I assist you today?">>]>>

sampleResponses ==
    << <<"Analyzing your request... I'll help you with that.">>,
       <<"Running `npm install` and setting up your project structure...">>,
       <<"I've identified the issue. Let me fix that for you.">>,
       <<"Creating a new React component with TypeScript types...">>,
       <<"Optimizing your code for better performance...">> >>

(* what the user types into the input *)
ChatInputs == {<<>>, <<" ", " ">>, <<"l", "s">>, <<" ", "l", "s", " ">>}

(* String.prototype.trim *)
RECURSIVE TrimStart(_)
TrimStart(s) == IF s # <<>> /\ Head(s) = " " THEN TrimStart(Tail(s)) ELSE s

RECURSIVE TrimEnd(_)
TrimEnd(s) ==
    IF s # <<>> /\ s[Len(s)] = " " THEN TrimEnd(SubSeq(s, 1, Len(s) - 1)) ELSE s

trim(s) == TrimEnd(TrimStart(s))

(* the state of a CLIPanel after its useState calls *)
ChatState ==
    /\ messages = initialMessages
    /\ input = sEmpty
    /\ isTyping = FALSE
    /\ timers = 0

ChatInit == ChatState /\ chatMounted = FALSE /\ orphans = 0

----------------------------------------------------------------------------
(* variant: useState(false) *)
InitialIsLoadingFalse == FALSE

(* useState(true) of isLoading *)
InitialIsLoading == TRUE

Init ==
    /\ isSupabaseConfigured \in BOOLEAN
    /\ phase = "created"
    /\ user = Null
    /\ session = Null
    /\ isLoading = InitialIsLoading
    /\ demoUser = Null
    /\ localStorage \in InitialStorages
    /\ getSessionReq = "none"
    /\ subscribed = FALSE
    /\ inflight = <<>>
    /\ mIsLoading = FALSE
    /\ mError = Null
    /\ showCLI = FALSE
    /\ showAuthModal = FALSE
    /\ unhandled = {}
    /\ lastPayload = NoPayload
    /\ displayName = Unset
    /\ nSubscribe = 0
    /\ nUnsubscribe = 0
    /\ lastCall = NoCall
    /\ ChatInit
    /\ ev = Ev("none", "none", "none")

(* variant: the record is read in configured mode too *)
MountReadsRecord ==
    /\ phase = "created"
    /\ phase' = "mounted"
    /\ LET stored == getItem(localStorage, DemoKey)
           d == IF Truthy(stored) /\ stored # <<>> THEN JSONparse(stored) ELSE demoUser
       IN /\ demoUser' = d
          /\ showCLI' = ShowCLIEffect(isLoggedIn, IsLoggedInOf(user, d), showCLI)
          /\ IF ~isSupabaseConfigured
             THEN /\ isLoading' = FALSE
                  /\ UNCHANGED <<getSessionReq, subscribed, nSubscribe>>
             ELSE /\ getSessionReq' = "pending"
                  /\ subscribed' = TRUE
                  /\ nSubscribe' = nSubscribe + 1
                  /\ UNCHANGED isLoading
    /\ ev' = Ev("mount", "none", "none")
    /\ lastCall' = LastCallAfter(ev')
    /\ UNCHANGED <<viewVars, chatVars, nUnsubscribe, isSupabaseConfigured, user, session, localStorage, inflight,
                   mIsLoading, mError, showAuthModal, unhandled, lastPayload>>

(* AuthProvider useEffect(..., []) *)
Mount ==
    /\ phase = "created"
    /\ phase' = "mounted"
    /\ IF ~isSupabaseConfigured
       THEN LET stored == getItem(localStorage, DemoKey)
                d == IF Truthy(stored) /\ stored # <<>> THEN JSONparse(stored) ELSE demoUser
            IN /\ demoUser' = d
               /\ isLoading' = FALSE
               /\ showCLI' = ShowCLIEffect(isLoggedIn, IsLoggedInOf(user, d), showCLI)
               /\ UNCHANGED <<getSessionReq, subscribed, nSubscribe>>
       ELSE /\ getSessionReq' = "pending"
            /\ subscribed' = TRUE
            /\ nSubscribe' = nSubscribe + 1
            /\ UNCHANGED <<demoUser, isLoading, showCLI>>
    /\ ev' = Ev("mount", "none", "none")
    /\ lastCall' = LastCallAfter(ev')
    /\ UNCHANGED <<viewVars, chatVars, nUnsubscribe, isSupabaseConfigured, user, session, localStorage, inflight,
                   mIsLoading, mError, showAuthModal, unhandled, lastPayload>>

(* the page is loaded again: a new AuthProvider, modal and page over the
   localStorage the last one left *)
Reload ==
    /\ phase \in {"mounted", "unmounted"}
    /\ phase' = "created"
    /\ user' = Null
    /\ session' = Null
    /\ isLoading' = InitialIsLoading
    /\ demoUser' = Null
    /\ getSessionReq' = "none"
    /\ subscribed' = FALSE
    /\ inflight' = <<>>
    /\ mIsLoading' = FALSE
    /\ mError' = Null
    /\ showCLI' = FALSE
    /\ showAuthModal' = FALSE
    /\ unhandled' = {}
    /\ lastPayload' = NoPayload
    /\ nSubscribe' = 0
    /\ nUnsubscribe' = 0
    /\ ev' = Ev("reload", "none", "none")
    /\ UNCHANGED <<viewVars, chatVars, isSupabaseConfigured, localStorage, lastCall>>

----------------------------------------------------------------------------
(* AuthProvider: initial session and notifications *)

(* supabase.auth.getSession().then(({ data: { session } }) => ...) *)
GetSessionResolve ==
    \E s \in Sessions \cup {Null} :
        /\ phase = "mounted"
        /\ getSessionReq = "pending"
        /\ getSessionReq' = "done"
        /\ session' = s
        /\ lastPayload' = s
        /\ user' = SessionUser(s)
        /\ isLoading' = FALSE
        /\ showCLI' = ShowCLIEffect(isLoggedIn, IsLoggedInOf(SessionUser(s), demoUser), showCLI)
        /\ ev' = [Ev("getSession", "none", "none") EXCEPT !.payload = s]
        /\ lastCall' = LastCallAfter(ev')
        /\ UNCHANGED <<viewVars, chatVars, subCounts, isSupabaseConfigured, phase, demoUser, localStorage, subscribed,
                       inflight, mIsLoading, mError, showAuthModal, unhandled>>

(* variant: the catch handler also clears the identity *)
GetSessionRejectClears ==
    \E e \in AuthErrors :
        /\ phase = "mounted"
        /\ getSessionReq = "pending"
        /\ getSessionReq' = "done"
        /\ session' = Null
        /\ user' = Null
        /\ isLoading' = FALSE
        /\ ev' = [Ev("getSession", "none", "none") EXCEPT !.error = e]
        /\ lastCall' = LastCallAfter(ev')
        /\ UNCHANGED <<viewVars, chatVars, subCounts, isSupabaseConfigured, phase, demoUser, localStorage,
                       subscribed, inflight, mIsLoading, mError, showCLI, showAuthModal,
                       unhandled, lastPayload>>

(* .catch(() => { setIsLoading(false); }) *)
GetSessionReject ==
    \E e \in AuthErrors :
        /\ phase = "mounted"
        /\ getSessionReq = "pending"
        /\ getSessionReq' = "done"
        /\ isLoading' = FALSE
        /\ ev' = [Ev("getSession", "none", "none") EXCEPT !.error = e]
        /\ lastCall' = LastCallAfter(ev')
        /\ UNCHANGED <<viewVars, chatVars, subCounts, isSupabaseConfigured, phase, user, session, demoUser, localStorage,
                       subscribed, inflight, mIsLoading, mError, showCLI, showAuthModal,
                       unhandled, lastPayload>>

(* variant: a sign-out starts loading again *)
NotifyLoadsAgain ==
    \E s \in Sessions \cup {Null} :
        /\ subscribed
        /\ session' = s
        /\ lastPayload' = s
        /\ user' = SessionUser(s)
        /\ isLoading' = (s = Null)
        /\ showCLI' = ShowCLIEffect(isLoggedIn, IsLoggedInOf(SessionUser(s), demoUser), showCLI)
        /\ ev' = [Ev("notify", "none", "none") EXCEPT !.payload = s]
        /\ lastCall' = LastCallAfter(ev')
        /\ UNCHANGED <<viewVars, chatVars, subCounts, isSupabaseConfigured, phase, demoUser, localStorage, getSessionReq,
                       subscribed, inflight, mIsLoading, mError, showAuthModal, unhandled>>

(* variant: setUser is missing *)
NotifySessionOnly ==
    \E s \in Sessions \cup {Null} :
        /\ subscribed
        /\ session' = s
        /\ lastPayload' = s
        /\ isLoading' = FALSE
        /\ ev' = [Ev("notify", "none", "none") EXCEPT !.payload = s]
        /\ lastCall' = LastCallAfter(ev')
        /\ UNCHANGED <<viewVars, chatVars, subCounts, isSupabaseConfigured, phase, user, demoUser,
                       localStorage, getSessionReq, subscribed, inflight, mIsLoading, mError,
                       showCLI, showAuthModal, unhandled>>

(* the callback given to supabase.auth.onAuthStateChange *)
Notify ==
    \E s \in Sessions \cup {Null} :
        /\ subscribed
        /\ session' = s
        /\ lastPayload' = s
        /\ user' = SessionUser(s)
        /\ isLoading' = FALSE
        /\ showCLI' = ShowCLIEffect(isLoggedIn, IsLoggedInOf(SessionUser(s), demoUser), showCLI)
        /\ ev' = [Ev("notify", "none", "none") EXCEPT !.payload = s]
        /\ lastCall' = LastCallAfter(ev')
        /\ UNCHANGED <<viewVars, chatVars, subCounts, isSupabaseConfigured, phase, demoUser, localStorage, getSessionReq,
                       subscribed, inflight, mIsLoading, mError, showAuthModal, unhandled>>

(* the provider emits a session change while no callback is registered *)
EmitUnheard ==
    \E s \in Sessions \cup {Null} :
        /\ isSupabaseConfigured
        /\ ~subscribed
        /\ ev' = [Ev("emit", "none", "none") EXCEPT !.payload = s]
        /\ lastCall' = LastCallAfter(ev')
        /\ UNCHANGED <<viewVars, chatVars, subCounts, isSupabaseConfigured, phase, user, session,
                       isLoading, demoUser, localStorage, getSessionReq, subscribed, inflight,
                       mIsLoading, mError, showCLI, showAuthModal, unhandled, lastPayload>>

(* variant: the effect returns no cleanup function *)
TeardownLeaks ==
    /\ phase = "mounted"
    /\ phase' = "unmounted"
    /\ ev' = Ev("teardown", "none", "none")
    /\ lastCall' = LastCallAfter(ev')
    /\ UNCHANGED <<viewVars, chatVars, subCounts, isSupabaseConfigured, user, session, isLoading,
                   demoUser, localStorage, getSessionReq, subscribed, inflight, mIsLoading,
                   mError, showCLI, showAuthModal, unhandled, lastPayload>>

(* unmount: the cleanup the effect returned in configured mode,
   return () => subscription.unsubscribe() *)
Teardown ==
    /\ phase = "mounted"
    /\ phase' = "unmounted"
    /\ subscribed' = FALSE
    /\ nUnsubscribe' = IF isSupabaseConfigured THEN nUnsubscribe + 1 ELSE nUnsubscribe
    /\ ev' = Ev("teardown", "none", "none")
    /\ lastCall' = LastCallAfter(ev')
    /\ UNCHANGED <<viewVars, chatVars, nSubscribe, isSupabaseConfigured, user, session, isLoading, demoUser, localStorage,
                   getSessionReq, inflight, mIsLoading, mError, showCLI, showAuthModal,
                   unhandled, lastPayload>>

----------------------------------------------------------------------------
(* AuthProvider: the facade operations.  Each operator is the body of the
   function up to its first await: it sets demoUser', localStorage' and
   inflight'. *)

sUser == <<" ", "U", "s", "e", "r">>
sDemoAt == <<"d", "e", "m", "o", "@">>
sDotCom == <<".", "c", "o", "m">>
sAtDemoCom == <<"@", "d", "e", "m", "o">> \o sDotCom

(* variant: the whole email is taken as the name *)
LoginDemoWholeEmail(email) == [name |-> email, email |-> email]

LoginDemo(email) == [name |-> SplitFirst(email, "@"), email |-> email]
RegisterDemo(name, email) == [name |-> name, email |-> email]
OAuthDemo(provider) ==
    [name |-> Capitalize(provider) \o sUser, email |-> sDemoAt \o provider \o sDotCom]
DemoLoginDemo(name) ==
    [name |-> name, email |-> StripWhitespace(toLowerCase(name)) \o sAtDemoCom]

(* variant: the setItem call is missing *)
StoreDemoUnpersisted(demo) ==
    /\ demoUser' = demo
    /\ UNCHANGED localStorage

(* setDemoUser(demo); localStorage.setItem('demo_user', JSON.stringify(demo)) *)
StoreDemo(demo) ==
    /\ demoUser' = demo
    /\ localStorage' = setItem(localStorage, DemoKey, JSONstringify(demo))

(* await supabase.auth.<call>(...) *)
CallProvider(op, caller) ==
    /\ inflight' = Append(inflight, [op |-> op, caller |-> caller])
    /\ UNCHANGED <<demoUser, localStorage>>

login(email, password, caller) ==
    IF ~isSupabaseConfigured
    THEN StoreDemo(LoginDemo(email)) /\ UNCHANGED inflight
    ELSE CallProvider("login", caller)

register(name, email, password, caller) ==
    IF ~isSupabaseConfigured
    THEN StoreDemo(RegisterDemo(name, email)) /\ UNCHANGED inflight
    ELSE CallProvider("register", caller)

(* variant: no demo branch *)
loginWithOAuthViaProvider(provider, caller) == CallProvider("loginWithOAuth", caller)

loginWithOAuth(provider, caller) ==
    IF ~isSupabaseConfigured
    THEN StoreDemo(OAuthDemo(provider)) /\ UNCHANGED inflight
    ELSE CallProvider("loginWithOAuth", caller)

(* variant: the removeItem call is missing *)
logoutKeepsRecord(caller) ==
    IF ~isSupabaseConfigured
    THEN /\ demoUser' = Null
         /\ UNCHANGED <<localStorage, inflight>>
    ELSE CallProvider("logout", caller)

(* variant: setDemoUser(null) is missing *)
logoutKeepsIdentity(caller) ==
    IF ~isSupabaseConfigured
    THEN /\ localStorage' = removeItem(localStorage, DemoKey)
         /\ UNCHANGED <<demoUser, inflight>>
    ELSE CallProvider("logout", caller)

logout(caller) ==
    IF ~isSupabaseConfigured
    THEN /\ demoUser' = Null
         /\ localStorage' = removeItem(localStorage, DemoKey)
         /\ UNCHANGED inflight
    ELSE CallProvider("logout", caller)

demoLogin(name) == StoreDemo(DemoLoginDemo(name)) /\ UNCHANGED inflight

(* variant: the confirmation is not compared *)
PasswordsDifferNever(form) == FALSE

(* registerForm.password !== registerForm.confirmPassword *)
PasswordsDiffer(form) == form.password # form.confirmPassword

(* room for one more provider call *)
CanCall == isSupabaseConfigured => Len(inflight) < MaxInFlight

(* the facade called by a consumer of useAuth() other than the modal and the page *)
DirectLogin ==
    \E email \in Emails, password \in Passwords :
        /\ phase = "mounted" /\ CanCall
        /\ login(email, password, "direct")
        /\ ev' = [FacadeEv("login", "direct", LoginDemo(email))
                     EXCEPT !.args = [email |-> email, password |-> password]]
        /\ showCLI' = ShowCLIEffect(isLoggedIn, IsLoggedInOf(user, demoUser'), showCLI)
        /\ lastCall' = LastCallAfter(ev')
        /\ UNCHANGED <<viewVars, chatVars, subCounts, isSupabaseConfigured, phase, user, session, isLoading, getSessionReq,
                       subscribed, mIsLoading, mError, showAuthModal, unhandled, lastPayload>>

DirectRegister ==
    \E name \in Names, email \in Emails, password \in Passwords :
        /\ phase = "mounted" /\ CanCall
        /\ register(name, email, password, "direct")
        /\ ev' = FacadeEv("register", "direct", RegisterDemo(name, email))
        /\ showCLI' = ShowCLIEffect(isLoggedIn, IsLoggedInOf(user, demoUser'), showCLI)
        /\ lastCall' = LastCallAfter(ev')
        /\ UNCHANGED <<viewVars, chatVars, subCounts, isSupabaseConfigured, phase, user, session, isLoading, getSessionReq,
                       subscribed, mIsLoading, mError, showAuthModal, unhandled, lastPayload>>

DirectLoginWithOAuth ==
    \E provider \in OAuthProviders :
        /\ phase = "mounted" /\ CanCall
        /\ loginWithOAuth(provider, "direct")
        /\ ev' = FacadeEv("loginWithOAuth", "direct", OAuthDemo(provider))
        /\ showCLI' = ShowCLIEffect(isLoggedIn, IsLoggedInOf(user, demoUser'), showCLI)
        /\ lastCall' = LastCallAfter(ev')
        /\ UNCHANGED <<viewVars, chatVars, subCounts, isSupabaseConfigured, phase, user, session, isLoading, getSessionReq,
                       subscribed, mIsLoading, mError, showAuthModal, unhandled, lastPayload>>

DirectLogout ==
    /\ phase = "mounted" /\ CanCall
    /\ logout("direct")
    /\ ev' = FacadeEv("logout", "direct", Null)
    /\ showCLI' = ShowCLIEffect(isLoggedIn, IsLoggedInOf(user, demoUser'), showCLI)
    /\ lastCall' = LastCallAfter(ev')
    /\ UNCHANGED <<viewVars, chatVars, subCounts, isSupabaseConfigured, phase, user, session, isLoading, getSessionReq,
                   subscribed, mIsLoading, mError, showAuthModal, unhandled, lastPayload>>

DirectDemoLogin ==
    \E name \in Names :
        /\ phase = "mounted"
        /\ demoLogin(name)
        /\ ev' = [Ev("return", "demoLogin", "direct") EXCEPT !.demo = DemoLoginDemo(name)]
        /\ showCLI' = ShowCLIEffect(isLoggedIn, IsLoggedInOf(user, demoUser'), showCLI)
        /\ lastCall' = LastCallAfter(ev')
        /\ UNCHANGED <<viewVars, chatVars, subCounts, isSupabaseConfigured, phase, user, session, isLoading, getSessionReq,
                       subscribed, mIsLoading, mError, showAuthModal, unhandled, lastPayload>>

----------------------------------------------------------------------------
(* The provider answers a call: the rest of the facade function, and of the
   handler that awaited it *)

(* variant: the facade throws an error of its own *)
ThrownGeneric(error) ==
    IF error = Null THEN Null ELSE [isError |-> TRUE, message |-> "Authentication failed"]

(* const { error } = await ...; if (error) throw error; *)
Thrown(error) == error

(* variant: a successful sign-in stores the signed-in session at once *)
FacadeSettledEager(op, error) ==
    IF error = Null /\ op \in {"login", "register", "loginWithOAuth"}
    THEN /\ session' = [access_token |-> "t1", user |-> U1]
         /\ user' = U1
         /\ UNCHANGED <<demoUser, localStorage>>
    ELSE UNCHANGED <<user, session, demoUser, localStorage>>

(* the facade function after its await, in configured mode: it writes no
   state of the holder and nothing to localStorage *)
FacadeSettled(op, error) == UNCHANGED <<user, session, demoUser, localStorage>>

(* err instanceof Error ? err.message : '<fallback>' *)
ErrorMessage(err, fallback) ==
    [message |-> IF err.isError THEN err.message ELSE fallback]

Fallback(caller) ==
    CASE caller = "handleLogin" -> "Login failed"
      [] caller = "handleRegister" -> "Registration failed"
      [] caller = "handleSignIn" -> "Sign in failed"
      [] caller = "handleOAuthLogin" -> "OAuth login failed"

ModalHandlers == {"handleLogin", "handleRegister", "handleSignIn", "handleOAuthLogin"}

(* what a handler calls after its await: toast(...); onAuthSuccess(); onClose()
   in the try block, nothing in the catch and finally blocks *)
Callbacks(caller, thrown) ==
    IF caller \in ModalHandlers /\ thrown = Null
    THEN <<"toast", "onAuthSuccess", "onClose">>
    ELSE <<>>

(* variant: the catch block sets no error *)
ModalSettledSwallows(caller, thrown, cli) ==
    IF thrown = Null
    THEN /\ showCLI' = TRUE
         /\ showAuthModal' = FALSE
         /\ mIsLoading' = FALSE
         /\ UNCHANGED <<mError, unhandled, lastPayload>>
    ELSE /\ mIsLoading' = FALSE
         /\ showCLI' = cli
         /\ UNCHANGED <<mError, showAuthModal, unhandled, lastPayload>>

(* AuthModal handlers after the await: toast, onAuthSuccess(), onClose() in
   the try block, setError in the catch block, setIsLoading(false) in the
   finally block.  cli is showCLI as the Index effect left it. *)
ModalSettled(caller, thrown, cli) ==
    IF thrown = Null
    THEN /\ showCLI' = TRUE
         /\ showAuthModal' = FALSE
         /\ mIsLoading' = FALSE
         /\ UNCHANGED <<mError, unhandled, lastPayload>>
    ELSE /\ mError' = ErrorMessage(thrown, Fallback(caller))
         /\ mIsLoading' = FALSE
         /\ showCLI' = cli
         /\ UNCHANGED <<showAuthModal, unhandled, lastPayload>>

(* variant: setShowCLI(false) in a finally block *)
LoginClickSettledFinally(thrown, cli) ==
    IF thrown = Null
    THEN /\ showCLI' = FALSE
         /\ UNCHANGED <<mIsLoading, mError, showAuthModal, unhandled, lastPayload>>
    ELSE /\ unhandled' = unhandled \cup {thrown}
         /\ showCLI' = FALSE
         /\ UNCHANGED <<mIsLoading, mError, showAuthModal, lastPayload>>

(* Index.handleLoginClick after await logout(): setShowCLI(false); a
   rejection has no catch block and Navbar's onClick drops the promise *)
LoginClickSettled(thrown, cli) ==
    IF thrown = Null
    THEN /\ showCLI' = FALSE
         /\ UNCHANGED <<mIsLoading, mError, showAuthModal, unhandled, lastPayload>>
    ELSE /\ unhandled' = unhandled \cup {thrown}
         /\ showCLI' = cli
         /\ UNCHANGED <<mIsLoading, mError, showAuthModal, lastPayload>>

Settled(caller, thrown, cli) ==
    IF caller \in ModalHandlers THEN ModalSettled(caller, thrown, cli)
    ELSE IF caller = "handleLoginClick" THEN LoginClickSettled(thrown, cli)
    ELSE /\ showCLI' = cli
         /\ UNCHANGED <<mIsLoading, mError, showAuthModal, unhandled, lastPayload>>

RemoveAt(q, i) == SubSeq(q, 1, i - 1) \o SubSeq(q, i + 1, Len(q))

Settle ==
    \E i \in DOMAIN inflight, error \in AuthErrors \cup {Null} :
        LET c == inflight[i]
            thrown == Thrown(error)
        IN /\ phase = "mounted"
           /\ inflight' = RemoveAt(inflight, i)
           /\ FacadeSettled(c.op, error)
           /\ Settled(c.caller, thrown,
                      ShowCLIEffect(isLoggedIn, IsLoggedInOf(user', demoUser'), showCLI))
           /\ ev' = [Ev(IF thrown = Null THEN "return" ELSE "throw", c.op, c.caller)
                        EXCEPT !.error = error, !.thrown = thrown,
                               !.calls = Callbacks(c.caller, thrown)]
           /\ lastCall' = LastCallAfter(ev')
           /\ UNCHANGED <<viewVars, chatVars, subCounts, isSupabaseConfigured, phase, isLoading, getSessionReq, subscribed>>

----------------------------------------------------------------------------
(* AuthModal handlers up to the await; in demo mode the facade returns at
   once and the handler runs to its end in the same step *)

(* variant: the buttons are not disabled *)
ModalCanSubmitWhileLoading == phase = "mounted" /\ showAuthModal /\ CanCall

(* the modal is open and its buttons are enabled: disabled={isLoading} *)
ModalCanSubmit == phase = "mounted" /\ showAuthModal /\ ~mIsLoading /\ CanCall

(* the callbacks of the step that starts a handler *)
StartedCallbacks(caller) ==
    IF ~isSupabaseConfigured THEN Callbacks(caller, Null) ELSE <<>>

(* variant: setIsLoading(true) is missing *)
ModalStartedNotLoading(caller) ==
    IF ~isSupabaseConfigured
    THEN /\ mError' = Null
         /\ showCLI' = TRUE
         /\ showAuthModal' = FALSE
         /\ mIsLoading' = FALSE
         /\ UNCHANGED <<unhandled, lastPayload>>
    ELSE /\ mError' = Null
         /\ UNCHANGED <<mIsLoading, showCLI, showAuthModal, unhandled, lastPayload>>

(* setError(null); setIsLoading(true); try { await <facade call> ... *)
ModalStarted(caller) ==
    IF ~isSupabaseConfigured
    THEN /\ mError' = Null
         /\ showCLI' = TRUE
         /\ showAuthModal' = FALSE
         /\ mIsLoading' = FALSE
         /\ UNCHANGED <<unhandled, lastPayload>>
    ELSE /\ mError' = Null
         /\ mIsLoading' = TRUE
         /\ UNCHANGED <<showCLI, showAuthModal, unhandled, lastPayload>>

HandleLogin ==
    \E email \in Emails, password \in Passwords :
        /\ ModalCanSubmit
        /\ login(email, password, "handleLogin")
        /\ ModalStarted("handleLogin")
        /\ ev' = [FacadeEv("login", "handleLogin", LoginDemo(email))
                     EXCEPT !.invoked = "handleLogin", !.calls = StartedCallbacks("handleLogin"),
                            !.args = [email |-> email, password |-> password]]
        /\ lastCall' = LastCallAfter(ev')
        /\ UNCHANGED <<viewVars, chatVars, subCounts, isSupabaseConfigured, phase, user, session, isLoading, getSessionReq,
                       subscribed>>

HandleSignIn ==
    \E email \in Emails, password \in Passwords :
        /\ ModalCanSubmit
        /\ login(email, password, "handleSignIn")
        /\ ModalStarted("handleSignIn")
        /\ ev' = [FacadeEv("login", "handleSignIn", LoginDemo(email))
                     EXCEPT !.invoked = "handleSignIn", !.calls = StartedCallbacks("handleSignIn"),
                            !.args = [email |-> email, password |-> password]]
        /\ lastCall' = LastCallAfter(ev')
        /\ UNCHANGED <<viewVars, chatVars, subCounts, isSupabaseConfigured, phase, user, session, isLoading, getSessionReq,
                       subscribed>>

HandleRegister ==
    \E name \in Names, email \in Emails, password \in Passwords, confirmPassword \in Passwords :
        LET form == [password |-> password, confirmPassword |-> confirmPassword]
        IN /\ ModalCanSubmit
           /\ IF PasswordsDiffer(form)
              THEN /\ mError' = [message |-> "Passwords don't match!"]
                   /\ ev' = [Ev("invalid", "none", "none")
                                EXCEPT !.invoked = "handleRegister", !.form = form]
                   /\ UNCHANGED <<demoUser, localStorage, inflight, mIsLoading, showCLI,
                                  showAuthModal, unhandled, lastPayload>>
              ELSE /\ register(name, email, password, "handleRegister")
                   /\ ModalStarted("handleRegister")
                   /\ ev' = [FacadeEv("register", "handleRegister", RegisterDemo(name, email))
                                EXCEPT !.invoked = "handleRegister", !.calls = StartedCallbacks("handleRegister"), !.form = form]
           /\ lastCall' = LastCallAfter(ev')
           /\ UNCHANGED <<viewVars, chatVars, subCounts, isSupabaseConfigured, phase, user, session, isLoading,
                          getSessionReq, subscribed>>

HandleOAuthLogin ==
    \E provider \in OAuthProviders :
        /\ ModalCanSubmit
        /\ loginWithOAuth(provider, "handleOAuthLogin")
        /\ ModalStarted("handleOAuthLogin")
        /\ ev' = [FacadeEv("loginWithOAuth", "handleOAuthLogin", OAuthDemo(provider))
                     EXCEPT !.invoked = "handleOAuthLogin", !.calls = StartedCallbacks("handleOAuthLogin")]
        /\ lastCall' = LastCallAfter(ev')
        /\ UNCHANGED <<viewVars, chatVars, subCounts, isSupabaseConfigured, phase, user, session, isLoading, getSessionReq,
                       subscribed>>

(* the close button and the dialog's onOpenChange: onClose() *)
CloseModal ==
    /\ phase = "mounted"
    /\ showAuthModal
    /\ showAuthModal' = FALSE
    /\ ev' = [Ev("ui", "none", "none") EXCEPT !.invoked = "onClose"]
    /\ lastCall' = LastCallAfter(ev')
    /\ UNCHANGED <<viewVars, chatVars, subCounts, isSupabaseConfigured, phase, user, session, isLoading, demoUser,
                   localStorage, getSessionReq, subscribed, inflight, mIsLoading, mError,
                   showCLI, unhandled, lastPayload>>

----------------------------------------------------------------------------
(* Index handlers *)

HandleLoginClick ==
    /\ phase = "mounted"
    /\ IF isLoggedIn
       THEN /\ CanCall
            /\ logout("handleLoginClick")
            /\ showCLI' = IF ~isSupabaseConfigured THEN FALSE ELSE showCLI
            /\ ev' = [FacadeEv("logout", "handleLoginClick", Null)
                         EXCEPT !.invoked = "handleLoginClick"]
            /\ UNCHANGED showAuthModal
       ELSE /\ showAuthModal' = TRUE
            /\ ev' = [Ev("ui", "none", "none") EXCEPT !.invoked = "handleLoginClick"]
            /\ UNCHANGED <<demoUser, localStorage, inflight, showCLI>>
    /\ lastCall' = LastCallAfter(ev')
    /\ UNCHANGED <<viewVars, chatVars, subCounts, isSupabaseConfigured, phase, user, session, isLoading, getSessionReq,
                   subscribed, mIsLoading, mError, unhandled, lastPayload>>

HandleCtaClick ==
    /\ phase = "mounted"
    /\ IF ~isLoggedIn
       THEN showAuthModal' = TRUE /\ UNCHANGED showCLI
       ELSE showCLI' = TRUE /\ UNCHANGED showAuthModal
    /\ ev' = [Ev("ui", "none", "none") EXCEPT !.invoked = "handleCtaClick"]
    /\ lastCall' = LastCallAfter(ev')
    /\ UNCHANGED <<viewVars, chatVars, subCounts, isSupabaseConfigured, phase, user, session, isLoading, demoUser,
                   localStorage, getSessionReq, subscribed, inflight, mIsLoading, mError,
                   unhandled, lastPayload>>

----------------------------------------------------------------------------
(* Spec: the session holder driven by any consumer of useAuth() *)

Next ==
    \/ Mount
    \/ GetSessionResolve
    \/ GetSessionReject
    \/ Notify
    \/ EmitUnheard
    \/ Teardown
    \/ Reload
    \/ DirectLogin
    \/ DirectRegister
    \/ DirectLoginWithOAuth
    \/ DirectLogout
    \/ DirectDemoLogin
    \/ Settle

Spec == Init /\ [][Next]_vars

(* SpecName: getUserDisplayName on every identity the holder can hold *)

InitName ==
    /\ isSupabaseConfigured \in BOOLEAN
    /\ phase = "mounted"
    /\ user \in DisplayUsers \cup {Null}
    /\ session = Null
    /\ isLoading = FALSE
    /\ demoUser \in DisplayDemoUsers \cup {Null}
    /\ localStorage = EmptyStorage
    /\ getSessionReq = "none"
    /\ subscribed = FALSE
    /\ inflight = <<>>
    /\ mIsLoading = FALSE
    /\ mError = Null
    /\ showCLI = FALSE
    /\ showAuthModal = FALSE
    /\ unhandled = {}
    /\ lastPayload = NoPayload
    /\ displayName = Unset
    /\ nSubscribe = 0
    /\ nUnsubscribe = 0
    /\ lastCall = NoCall
    /\ ChatInit
    /\ ev = Ev("none", "none", "none")

(* Index render: <Navbar userName={getUserDisplayName()} ... /> *)
RenderNavbar ==
    /\ displayName = Unset
    /\ displayName' = getUserDisplayName(user, demoUser)
    /\ ev' = Ev("render", "getUserDisplayName", "Index")
    /\ lastCall' = LastCallAfter(ev')
    /\ UNCHANGED <<chatVars, subCounts, isSupabaseConfigured, phase, user, session, isLoading, demoUser,
                   localStorage, getSessionReq, subscribed, inflight, mIsLoading, mError,
                   showCLI, showAuthModal, unhandled, lastPayload>>

NextName == RenderNavbar

SpecName == InitName /\ [][NextName]_vars

(* SpecChat: the chat panel, mounted and unmounted by the page *)

InitChat ==
    /\ isSupabaseConfigured = FALSE
    /\ phase = "mounted"
    /\ user = Null
    /\ session = Null
    /\ isLoading = FALSE
    /\ demoUser = [name |-> NameAda, email |-> EmailAda]
    /\ localStorage = setItem(EmptyStorage, DemoKey, JSONstringify(demoUser))
    /\ getSessionReq = "none"
    /\ subscribed = FALSE
    /\ inflight = <<>>
    /\ mIsLoading = FALSE
    /\ mError = Null
    /\ showCLI = FALSE
    /\ showAuthModal = FALSE
    /\ unhandled = {}
    /\ lastPayload = NoPayload
    /\ displayName = Unset
    /\ nSubscribe = 0
    /\ nUnsubscribe = 0
    /\ lastCall = NoCall
    /\ ChatInit
    /\ ev = Ev("none", "none", "none")

authVars == <<isSupabaseConfigured, phase, user, session, isLoading, demoUser, localStorage,
              getSessionReq, subscribed, inflight, mIsLoading, mError, showAuthModal,
              unhandled, lastPayload, lastCall>>

(* Index: {showCLI && <CLIPanel />} once showCLI is true *)
ChatMount ==
    /\ ~chatMounted
    /\ chatMounted' = TRUE
    /\ showCLI' = TRUE
    /\ messages' = initialMessages
    /\ input' = sEmpty
    /\ isTyping' = FALSE
    /\ timers' = 0
    /\ ev' = Ev("chatMount", "none", "none")
    /\ UNCHANGED <<viewVars, subCounts, authVars, orphans>>

(* Index: showCLI is false again, the CLIPanel is unmounted with its state;
   its setTimeout callbacks are not cleared (there is no clearTimeout and no
   effect cleanup) *)
ChatUnmount ==
    /\ chatMounted
    /\ orphans + timers <= MaxOrphans
    /\ chatMounted' = FALSE
    /\ showCLI' = FALSE
    /\ timers' = 0
    /\ orphans' = orphans + timers
    /\ ev' = Ev("chatUnmount", "none", "none")
    /\ UNCHANGED <<viewVars, subCounts, authVars, messages, input, isTyping>>

(* onChange={(e) => setInput(e.target.value)} of the input, disabled={isTyping} *)
ChatType ==
    \E text \in ChatInputs :
        /\ chatMounted
        /\ ~isTyping
        /\ input' = text
        /\ ev' = Ev("chatType", "none", "none")
        /\ UNCHANGED <<viewVars, subCounts, authVars, showCLI, messages, isTyping,
                       chatMounted, timers, orphans>>

(* variant: the input is not trimmed *)
SubmitRefusedUntrimmed(text, typing) == text = sEmpty \/ typing

(* if (!input.trim() || isTyping) return; *)
SubmitRefused(text, typing) == trim(text) = sEmpty \/ typing

(* variant: no setTimeout *)
ChatSubmitNoTimer ==
    /\ chatMounted
    /\ IF SubmitRefused(input, isTyping)
       THEN /\ ev' = [Ev("chatSubmit", "none", "none") EXCEPT !.invoked = "refused"]
            /\ UNCHANGED <<messages, input, isTyping, timers>>
       ELSE /\ Len(messages) + 2 <= MaxMessages
            /\ messages' = Append(messages, [type |-> "user", content |-> input])
            /\ input' = sEmpty
            /\ isTyping' = TRUE
            /\ timers' = timers
            /\ ev' = [Ev("chatSubmit", "none", "none") EXCEPT !.invoked = "accepted"]
    /\ UNCHANGED <<viewVars, subCounts, authVars, showCLI, chatMounted, orphans>>

(* CLIPanel.handleSubmit *)
ChatSubmit ==
    /\ chatMounted
    /\ IF SubmitRefused(input, isTyping)
       THEN /\ ev' = [Ev("chatSubmit", "none", "none") EXCEPT !.invoked = "refused"]
            /\ UNCHANGED <<messages, input, isTyping, timers>>
       ELSE /\ Len(messages) + 2 <= MaxMessages
            /\ messages' = Append(messages, [type |-> "user", content |-> input])
            /\ input' = sEmpty
            /\ isTyping' = TRUE
            /\ timers' = timers + 1
            /\ ev' = [Ev("chatSubmit", "none", "none") EXCEPT !.invoked = "accepted"]
    /\ UNCHANGED <<viewVars, subCounts, authVars, showCLI, chatMounted, orphans>>

(* variant: setIsTyping(false) is missing *)
ChatRespondKeepsTyping ==
    \E i \in 1..Len(sampleResponses) :
        /\ chatMounted
        /\ timers > 0
        /\ timers' = timers - 1
        /\ messages' = Append(messages, [type |-> "agent", content |-> sampleResponses[i]])
        /\ ev' = Ev("chatRespond", "none", "none")
        /\ UNCHANGED <<viewVars, subCounts, authVars, showCLI, input, isTyping, chatMounted,
                       orphans>>

(* the setTimeout callback of handleSubmit *)
ChatRespond ==
    \E i \in 1..Len(sampleResponses) :
        /\ chatMounted
        /\ timers > 0
        /\ timers' = timers - 1
        /\ messages' = Append(messages, [type |-> "agent", content |-> sampleResponses[i]])
        /\ isTyping' = FALSE
        /\ ev' = Ev("chatRespond", "none", "none")
        /\ UNCHANGED <<viewVars, subCounts, authVars, showCLI, input, chatMounted, orphans>>

(* the setTimeout callback of a CLIPanel that was unmounted: setMessages and
   setIsTyping of a component that is gone change nothing *)
ChatOrphanRuns ==
    /\ orphans > 0
    /\ orphans' = orphans - 1
    /\ ev' = Ev("chatOrphan", "none", "none")
    /\ UNCHANGED <<viewVars, subCounts, authVars, showCLI, messages, input, isTyping,
                   chatMounted, timers>>

NextChat ==
    \/ ChatMount
    \/ ChatUnmount
    \/ ChatType
    \/ ChatSubmit
    \/ ChatRespond
    \/ ChatOrphanRuns

SpecChat == InitChat /\ [][NextChat]_vars

(* a timer set by setTimeout runs after its delay *)
SpecChatFair == SpecChat /\ WF_vars(ChatRespond)

(* SpecApp: the page as src/ wires it, the facade called by the modal and
   the page only *)

NextApp ==
    \/ Mount
    \/ GetSessionResolve
    \/ GetSessionReject
    \/ Notify
    \/ EmitUnheard
    \/ Teardown
    \/ Reload
    \/ Settle
    \/ HandleLogin
    \/ HandleSignIn
    \/ HandleRegister
    \/ HandleOAuthLogin
    \/ CloseModal
    \/ HandleLoginClick
    \/ HandleCtaClick

SpecApp == Init /\ [][NextApp]_vars

----------------------------------------------------------------------------
(* Properties *)

FacadeOps == {"login", "register", "loginWithOAuth", "logout"}

HasDemoRecord == DemoKey \in DOMAIN localStorage

(* C1: at most one of the provider identity (user) and the demo identity
   (demoUser) is non-null in every reachable state.  demoLogin has no
   isSupabaseConfigured test, so it breaks this in configured mode. *)
C1_AtMostOneIdentity == ~(Truthy(user) /\ Truthy(demoUser))

(* C2: in demo mode, when login, register, loginWithOAuth or logout was the
   call made last, localStorage holds no record but demo_user, demo_user is
   absent after logout, and otherwise it is present and reads back as the
   identity that call synthesized. *)
C2_DemoRecordIsLastCall ==
    (~isSupabaseConfigured /\ ev.kind = "return" /\ ev.op \in FacadeOps) =>
        /\ DOMAIN localStorage \subseteq {DemoKey}
        /\ IF ev.op = "logout"
           THEN ~HasDemoRecord
           ELSE HasDemoRecord /\ JSONparse(localStorage[DemoKey]) = ev.demo

(* a register call replaced an earlier record by one whose name needs escaping *)
C2_Witness ==
    /\ ~isSupabaseConfigured
    /\ ev.kind = "return" /\ ev.op = "register"
    /\ ev.demo = [name |-> NameQuote, email |-> EmailTwoAt]
    /\ HasDemoRecord

(* C3 as claimed: after logout() has returned, in either mode, isLoggedIn is
   false and no demo_user record exists. *)
C3_AfterLogoutAnyMode ==
    (ev.kind = "return" /\ ev.op = "logout") => (~isLoggedIn /\ ~HasDemoRecord)

(* C3 amended: in demo mode, after logout() has returned, isLoggedIn is false
   and no demo_user record exists. *)
C3_AfterLogoutDemoMode ==
    (~isSupabaseConfigured /\ ev.kind = "return" /\ ev.op = "logout") =>
        (~isLoggedIn /\ ~HasDemoRecord)

(* logout returned in demo mode *)
C3_Witness ==
    /\ ~isSupabaseConfigured
    /\ ev.kind = "return" /\ ev.op = "logout"
    /\ ~HasDemoRecord

(* C4: in configured mode user and session are those of the getSession
   response or notification processed last (a failed getSession response
   carries no session and is not such an event), whatever facade call is in
   flight or has returned; before the first such event both are null. *)
C4_LastProcessedEventWins ==
    isSupabaseConfigured =>
        IF lastPayload = NoPayload
        THEN session = Null /\ user = Null
        ELSE /\ session = lastPayload
             /\ user = (IF lastPayload = Null THEN Null ELSE lastPayload.user)

(* a notification was processed while a password sign-in was pending *)
C4_Witness ==
    /\ isSupabaseConfigured
    /\ \E i \in DOMAIN inflight : inflight[i].op = "login"
    /\ ev.kind = "notify" /\ ev.payload \in Sessions
    /\ user = ev.payload.user

(* C5 as claimed: isLoading is true until the init effect has read
   localStorage (demo mode) or the getSession response has been processed
   (configured mode). *)
C5_LoadingUntilResolved ==
    \/ ~isSupabaseConfigured /\ phase = "created"
    \/ isSupabaseConfigured /\ getSessionReq # "done"
    => isLoading

(* C5 amended: isLoading is true until the init effect has read localStorage
   (demo mode), or until the first of the getSession response and the
   provider notifications has been processed (configured mode). *)
C5_LoadingUntilFirstEvent ==
    \/ ~isSupabaseConfigured /\ phase = "created"
    \/ isSupabaseConfigured /\ getSessionReq # "done" /\ lastPayload = NoPayload
    => isLoading

(* facade calls were made and answered while the getSession request is
   still pending, and isLoading is still true *)
C5_Witness ==
    /\ isSupabaseConfigured
    /\ getSessionReq = "pending"
    /\ ev.kind \in {"return", "throw"}
    /\ isLoading

(* C6 as claimed: in configured mode, once the getSession response has been
   processed isLoading is false and user is the user of the returned
   session, null on success without a session and null on failure. *)
C6_GetSessionStoresIdentity ==
    (isSupabaseConfigured /\ ev.kind = "getSession") =>
        /\ ~isLoading
        /\ user = (IF ev.error # Null \/ ev.payload = Null THEN Null ELSE ev.payload.user)

(* C6 amended: the step that processes the getSession response sets isLoading
   to false; on success it stores the returned session and its user (null
   without a session); on failure it leaves user and session as they were,
   which is null unless a notification was processed before. *)
C6_GetSessionStep ==
    [][ev'.kind = "getSession" =>
          /\ isLoading' = FALSE
          /\ IF ev'.error = Null
             THEN /\ session' = ev'.payload
                  /\ user' = (IF ev'.payload = Null THEN Null ELSE ev'.payload.user)
             ELSE /\ session' = session /\ user' = user
                  /\ lastPayload = NoPayload => user' = Null /\ session' = Null]_vars

(* the getSession request failed after a notification had stored a user *)
C6_Witness ==
    /\ isSupabaseConfigured
    /\ ev.kind = "getSession" /\ ev.error # Null
    /\ Truthy(user)
    /\ ~isLoading

(* C7: in configured mode, when the provider answers login, register,
   loginWithOAuth or logout with an error, the operation throws that same
   error, and neither issuing the call nor its failure changes user, session,
   demoUser or localStorage. *)
C7_ProviderErrorPropagates ==
    [][(isSupabaseConfigured /\ ev'.op \in FacadeOps /\ ev'.kind \in {"call", "return", "throw"}) =>
          /\ ev'.error # Null => ev'.kind = "throw" /\ ev'.thrown = ev'.error
          /\ ev'.kind \in {"call", "throw"} =>
                UNCHANGED <<user, session, demoUser, localStorage>>]_vars

(* logout failed while a user and a stale demo record were present *)
C7_Witness ==
    /\ isSupabaseConfigured
    /\ ev.kind = "throw" /\ ev.op = "logout"
    /\ ev.thrown = [isError |-> TRUE, message |-> "Network failure"]
    /\ Truthy(user) /\ HasDemoRecord

(* C8: in configured mode a successful return of login, register or
   loginWithOAuth leaves user, session and isLoggedIn as they were, and user
   and session change only in the steps that process the getSession response
   or a notification (a page load starts a new provider with its initial
   state). *)
C8_SuccessChangesNothing ==
    [][isSupabaseConfigured =>
          /\ (ev'.kind = "return" /\ ev'.op \in {"login", "register", "loginWithOAuth"}) =>
                /\ user' = user /\ session' = session
                /\ IsLoggedInOf(user', demoUser') = IsLoggedInOf(user, demoUser)
          /\ (user' # user \/ session' # session) =>
                ev'.kind \in {"getSession", "notify", "reload"}]_vars

(* login returned successfully and nobody is logged in *)
C8_Witness ==
    /\ isSupabaseConfigured
    /\ ev.kind = "return" /\ ev.op = "login"
    /\ ~isLoggedIn

UIHandlers == ModalHandlers \cup {"handleLoginClick"}

(* C9: a provider error thrown by a facade operation that a UI handler called
   is caught by the handler and displayed: it is the modal's error message
   and it is no unhandled rejection.  Index.handleLoginClick has no catch
   block, so a failed logout breaks this. *)
C9_ProviderErrorsCaught ==
    (ev.kind = "throw" /\ ev.caller \in UIHandlers) =>
        /\ ev.thrown \notin unhandled
        /\ mError = [message |-> ev.thrown.message]

(* C10: handleRegister with password # confirmPassword sets the validation
   error and calls nothing: no provider call, localStorage and the session
   state unchanged, the modal's isLoading still false, the modal still open
   and the chat panel as it was. *)
C10_MismatchFailsFast ==
    [][(ev'.invoked = "handleRegister" /\ ev'.form.password # ev'.form.confirmPassword) =>
          /\ ev'.kind = "invalid"
          /\ mError' = [message |-> "Passwords don't match!"]
          /\ mIsLoading' = FALSE
          /\ showAuthModal'
          /\ UNCHANGED <<inflight, localStorage, user, session, demoUser, isLoading,
                         mIsLoading, showCLI, showAuthModal, unhandled>>]_vars

(* a mismatching form was submitted in configured mode after an earlier
   attempt had failed with a provider error *)
C10_Witness ==
    /\ isSupabaseConfigured
    /\ ev.invoked = "handleRegister" /\ ev.kind = "invalid"
    /\ ev.form = [password |-> "abc", confirmPassword |-> "xyz"]
    /\ mError = [message |-> "Passwords don't match!"]
    /\ ~mIsLoading /\ showAuthModal

(* a string that is there and is not empty *)
Available(v) == v # Undefined /\ v # Null /\ Len(v.str) > 0

MetaOf(u, f) == IF u.user_metadata = Undefined THEN Undefined ELSE u.user_metadata[f]

(* the characters of e before its first "@" *)
BeforeAt(e) ==
    LET stop == CHOOSE i \in 1..(Len(e) + 1) :
                    /\ (i = Len(e) + 1 \/ e[i] = "@")
                    /\ \A j \in 1..(i - 1) : e[j] # "@"
    IN SubSeq(e, 1, stop - 1)

(* C11: when an identity is present getUserDisplayName returns the demo
   identity's name if there is a demo identity (whatever the provider
   identity holds), else the first non-empty one of metadata full_name,
   metadata name, metadata preferred_username and the part of the email
   before '@', else "User". *)
C11_DisplayNamePrecedence ==
    (displayName # Unset /\ (Truthy(user) \/ Truthy(demoUser))) =>
        displayName.str =
            IF demoUser # Null THEN demoUser.name
            ELSE IF Available(MetaOf(user, "full_name")) THEN MetaOf(user, "full_name").str
            ELSE IF Available(MetaOf(user, "name")) THEN MetaOf(user, "name").str
            ELSE IF Available(MetaOf(user, "preferred_username"))
                 THEN MetaOf(user, "preferred_username").str
            ELSE IF Available(user.email) /\ BeforeAt(user.email.str) # <<>>
                 THEN BeforeAt(user.email.str)
            ELSE sUserLiteral

(* a demo identity named Ada hides a provider identity with a full name *)
C11_Witness ==
    /\ displayName = Str(NameAda)
    /\ Truthy(demoUser)
    /\ Truthy(user) /\ MetaOf(user, "full_name") = Str(sFullName)

(* C12: in configured mode onAuthStateChange is called once, by the init
   effect, and unsubscribe once, at teardown; in demo mode neither is ever
   called; a notification delivered to the callback replaces session and user
   by its payload; after teardown user, session, isLoading and demoUser never
   change. *)
C12_SubscriptionLifetime ==
    /\ [](/\ nSubscribe = (IF isSupabaseConfigured /\ phase # "created" THEN 1 ELSE 0)
          /\ nUnsubscribe = (IF isSupabaseConfigured /\ phase = "unmounted" THEN 1 ELSE 0)
          /\ subscribed = (isSupabaseConfigured /\ phase = "mounted")
          /\ ev.kind = "notify" =>
                /\ session = ev.payload
                /\ user = (IF ev.payload = Null THEN Null ELSE ev.payload.user))
    /\ [][(phase = "unmounted" /\ ev'.kind # "reload")
              => UNCHANGED <<user, session, isLoading, demoUser>>]_vars

(* the provider signalled a sign-out after teardown and the user stayed *)
C12_Witness ==
    /\ phase = "unmounted"
    /\ nSubscribe = 1 /\ nUnsubscribe = 1
    /\ ev.kind = "emit" /\ ev.payload = Null
    /\ Truthy(user)

(* C13: in demo mode, when the init effect has run on a page loaded after
   login, register or loginWithOAuth returned last, demoUser is the identity
   that call synthesized, isLoggedIn is true and isLoading is false; when
   logout returned last, there is no identity. *)
C13_DemoRoundTrip ==
    (~isSupabaseConfigured /\ ev.kind = "mount" /\ lastCall.op \in FacadeOps) =>
        /\ ~isLoading
        /\ user = Null
        /\ IF lastCall.op = "logout"
           THEN demoUser = Null /\ ~isLoggedIn
           ELSE demoUser = lastCall.demo /\ isLoggedIn

(* a reloaded page restored a registered identity whose name needs escaping *)
C13_Witness ==
    /\ ~isSupabaseConfigured
    /\ ev.kind = "mount"
    /\ lastCall = [op |-> "register", demo |-> [name |-> NameQuote, email |-> EmailNoAt]]
    /\ demoUser = lastCall.demo

(* C14: in demo mode login(email, password) calls no provider, and whatever
   the password it leaves as demoUser and as the demo_user record the
   identity whose email is the given one and whose name is the email up to
   its first '@', the whole email when it has none. *)
C14_DemoLoginIdentity ==
    ~isSupabaseConfigured =>
        /\ inflight = <<>>
        /\ (ev.kind = "return" /\ ev.op = "login") =>
              LET expected == [name |-> BeforeAt(ev.args.email), email |-> ev.args.email]
              IN /\ demoUser = expected
                 /\ HasDemoRecord
                 /\ JSONparse(localStorage[DemoKey]) = expected

(* login with an email that has two '@' *)
C14_Witness ==
    /\ ~isSupabaseConfigured
    /\ ev.kind = "return" /\ ev.op = "login"
    /\ ev.args = [email |-> EmailTwoAt, password |-> "xyz"]
    /\ demoUser = [name |-> <<"a">>, email |-> EmailTwoAt]

----------------------------------------------------------------------------
(* the user's message of an accepted submit is the n-th of the list *)
Asked(n) ==
    /\ chatMounted
    /\ Len(messages) = n
    /\ messages[n].type = "user"

(* the message after the n-th is an agent message with a canned content *)
Answered(n) ==
    /\ Len(messages) > n
    /\ messages[n + 1].type = "agent"
    /\ \E i \in 1..5 : messages[n + 1].content = sampleResponses[i]

(* every agent message but the welcome follows a user message *)
AnswersFollowSubmits ==
    \A i \in 2..Len(messages) :
        messages[i].type = "agent" =>
            /\ messages[i - 1].type = "user"
            /\ \E k \in 1..5 : messages[i].content = sampleResponses[k]

(* an agent message is appended only by the timer of an accepted submit *)
AgentAppendedByTimer ==
    (Len(messages') > Len(messages) /\ messages'[Len(messages')].type = "agent") =>
        /\ ev'.kind = "chatRespond"
        /\ isTyping /\ timers > 0
        /\ messages[Len(messages)].type = "user"
        /\ messages' = Append(messages, messages'[Len(messages')])

(* C15 as stated: every accepted submit is eventually followed by exactly one
   agent message, appended after the user's message, with one of the five
   canned contents; no agent message is appended without a preceding accepted
   submit. *)
C15_EverySubmitAnswered ==
    /\ []AnswersFollowSubmits
    /\ [][AgentAppendedByTimer]_vars
    /\ \A n \in 1..MaxMessages : Asked(n) ~> Answered(n)

(* C15 amended: every accepted submit is eventually followed by exactly one
   agent message with one of the five canned contents, appended after the
   user's message, unless the page unmounts the panel first; no agent message
   is appended without a preceding accepted submit. *)
C15_SubmitAnsweredWhileMounted ==
    /\ []AnswersFollowSubmits
    /\ [][AgentAppendedByTimer]_vars
    /\ \A n \in 1..MaxMessages : Asked(n) ~> (Answered(n) \/ ~chatMounted)

C15_Witness ==
    /\ chatMounted
    /\ ev.kind = "chatRespond"
    /\ Len(messages) = 3
    /\ messages[2] = [type |-> "user", content |-> <<" ", "l", "s", " ">>]
    /\ Answered(2)
    /\ ~isTyping

(* C20: a chat-panel submit whose input is empty or whitespace-only, or that
   arrives while isTyping is true, leaves messages, input and isTyping
   unchanged and starts no response timer. *)
C20_RefusedSubmitChangesNothing ==
    [][(ev'.kind = "chatSubmit" /\ (trim(input) = sEmpty \/ isTyping))
          => UNCHANGED <<messages, input, isTyping, timers>>]_vars

C20_Witness ==
    /\ ev.kind = "chatSubmit"
    /\ ev.invoked = "refused"
    /\ input = <<" ", " ">>
    /\ Len(messages) = 3
    /\ ~isTyping

C20_WitnessTyping ==
    /\ ev.kind = "chatSubmit"
    /\ ev.invoked = "refused"
    /\ isTyping
    /\ timers = 1

----------------------------------------------------------------------------
(* a call made by a modal handler waits for the provider *)
ModalCallInFlight == \E i \in DOMAIN inflight : inflight[i].caller \in ModalHandlers

ModalCallStarts(e) == e.kind = "call" /\ e.caller \in ModalHandlers
ModalCallSettles(e) == e.kind \in {"return", "throw"} /\ e.caller \in ModalHandlers

(* C16: the modal's isLoading is true from the start of handleLogin,
   handleSignIn, handleRegister or handleOAuthLogin until the awaited facade
   call settles, and false after a successful and after a failed call; while
   the call does not settle nothing sets isLoading to false (only a new page
   load starts the modal afresh). *)
C16_LoadingWhileInFlight ==
    /\ [](ModalCallInFlight => mIsLoading)
    /\ [][/\ ModalCallStarts(ev') => mIsLoading' /\ ModalCallInFlight'
          /\ ModalCallSettles(ev') => ~mIsLoading' /\ ~ModalCallInFlight'
          /\ (mIsLoading /\ ~mIsLoading') => (ModalCallSettles(ev') \/ ev'.kind = "reload")]_vars

(* the modal was closed while the call was in flight, and the call failed *)
C16_Witness ==
    /\ ev.kind = "throw" /\ ev.caller = "handleOAuthLogin"
    /\ ~showAuthModal
    /\ ~mIsLoading
    /\ mError # Null

(* the modal was closed and the provider torn down, the call is still in flight *)
C16_WitnessPending ==
    /\ phase = "unmounted"
    /\ ~showAuthModal
    /\ ModalCallInFlight
    /\ mIsLoading

Before(calls, a, b) ==
    \E i, j \in DOMAIN calls :
        /\ i < j
        /\ calls[i] = a /\ calls[j] = b
        /\ \A k \in DOMAIN calls : (calls[k] = a => k = i) /\ (calls[k] = b => k = j)

(* C17: when the facade call of a modal handler fails, error is set to a
   message, neither onAuthSuccess nor onClose is called and showAuthModal and
   showCLI keep their values; when it succeeds, onAuthSuccess is called before
   onClose, error is null (in configured mode it has been null since the
   handler started), showAuthModal is false and showCLI is true. *)
C17_HandlerOutcome ==
    [][/\ (ModalCallSettles(ev') /\ ev'.kind = "throw") =>
             /\ mError' # Null
             /\ mError'.message = (IF ev'.thrown.isError
                                   THEN ev'.thrown.message ELSE Fallback(ev'.caller))
             /\ ev'.calls = <<>>
             /\ showAuthModal' = showAuthModal
             /\ showCLI' = showCLI
       /\ (ModalCallSettles(ev') /\ ev'.kind = "return") =>
             /\ Before(ev'.calls, "onAuthSuccess", "onClose")
             /\ mError' = Null
             /\ isSupabaseConfigured => mError = Null
             /\ ~showAuthModal'
             /\ showCLI']_vars

(* a registration succeeded in configured mode, no identity has arrived *)
C17_Witness ==
    /\ isSupabaseConfigured
    /\ ev.kind = "return" /\ ev.caller = "handleRegister"
    /\ showCLI /\ ~showAuthModal
    /\ mError = Null
    /\ ~isLoggedIn

(* the sign-in failed with the provider's message, the modal is open *)
C17_WitnessFailure ==
    /\ ev.kind = "throw" /\ ev.caller = "handleSignIn"
    /\ mError = [message |-> ev.thrown.message]
    /\ showAuthModal /\ ~showCLI

----------------------------------------------------------------------------
LoginOps == {"login", "register", "loginWithOAuth"}

(* C18: in demo mode login, register, loginWithOAuth and logout never throw
   and never wait; when login, register or loginWithOAuth has returned
   isLoggedIn is true with the identity of that call, when logout has returned
   it is false; isLoggedIn goes from true to false only in a logout call (or
   when the page is loaded again, until the record is read back). *)
C18_DemoOpsComplete ==
    /\ [](~isSupabaseConfigured =>
             /\ ev.kind \notin {"throw", "call"}
             /\ (ev.kind = "return" /\ ev.op \in LoginOps) =>
                   isLoggedIn /\ demoUser = ev.demo
             /\ (ev.kind = "return" /\ ev.op = "logout") => ~isLoggedIn)
    /\ [][~isSupabaseConfigured =>
             /\ (isLoggedIn /\ ev'.op \in LoginOps) => isLoggedIn'
             /\ (isLoggedIn /\ ~isLoggedIn') =>
                   (ev'.op = "logout" \/ ev'.kind = "reload")]_vars

(* loginWithOAuth returned and its identity is the logged-in one *)
C18_Witness ==
    /\ ~isSupabaseConfigured
    /\ ev.kind = "return" /\ ev.op = "loginWithOAuth"
    /\ isLoggedIn
    /\ demoUser = ev.demo
    /\ demoUser.name # NameAda

LoginClick(e) == e.invoked = "handleLoginClick"
LoginClickCall == [op |-> "logout", caller |-> "handleLoginClick"]

(* C19: a click on the navbar button by a logged-in user calls logout; when
   that call has resolved showCLI is false, when it rejects showCLI keeps its
   value.  A click by a logged-out user calls nothing and sets showAuthModal
   to true. *)
C19_NavbarButton ==
    [][/\ (LoginClick(ev') /\ isLoggedIn) =>
             /\ ev'.op = "logout"
             /\ IF isSupabaseConfigured
                THEN /\ inflight' = Append(inflight, LoginClickCall)
                     /\ ev'.kind = "call"
                ELSE /\ ev'.kind = "return"
                     /\ ~showCLI'
       /\ (ev'.caller = "handleLoginClick" /\ ev'.kind = "return") => ~showCLI'
       /\ (ev'.caller = "handleLoginClick" /\ ev'.kind = "throw") => showCLI' = showCLI
       /\ (LoginClick(ev') /\ ~isLoggedIn) =>
             /\ ev'.op = "none"
             /\ showAuthModal'
             /\ UNCHANGED <<inflight, demoUser, localStorage, user, session, showCLI>>]_vars

(* logout was rejected and the chat panel is still shown *)
C19_Witness ==
    /\ ev.kind = "throw" /\ ev.caller = "handleLoginClick"
    /\ showCLI
    /\ isLoggedIn

(* logout resolved in configured mode and the chat panel is hidden *)
C19_WitnessResolved ==
    /\ isSupabaseConfigured
    /\ ev.kind = "return" /\ ev.caller = "handleLoginClick"
    /\ ~showCLI

----------------------------------------------------------------------------
(* agent, user, agent, ... *)
TypeAt(i) == IF i % 2 = 1 THEN "agent" ELSE "user"

(* the list starts with the welcome message and alternates, isTyping is true
   exactly when the last message is a user message *)
ListAlternates ==
    /\ Len(messages) >= 1
    /\ messages[1] = initialMessages[1]
    /\ \A i \in DOMAIN messages : messages[i].type = TypeAt(i)
    /\ isTyping = (messages[Len(messages)].type = "user")

(* C21 as stated: in every state of the chat panel the message list starts
   with the welcome message and alternates agent/user/agent/..., isTyping is
   true exactly when the last message is a user message, and at most one
   response timer is pending at any time. *)
C21_OneTimerAtAnyTime ==
    /\ chatMounted => ListAlternates
    /\ timers + orphans <= 1

(* C21 amended: in every state of the mounted chat panel the message list
   starts with the welcome message and alternates agent/user/agent/...;
   isTyping is true exactly when the last message is a user message, and the
   panel has at most one response timer of its own pending, which it has
   exactly when isTyping is true.  Timers of panels unmounted earlier may be
   pending next to it. *)
C21_ChatAlternates ==
    chatMounted =>
        /\ Len(messages) >= 1
        /\ messages[1] = initialMessages[1]
        /\ \A i \in DOMAIN messages : messages[i].type = TypeAt(i)
        /\ isTyping = (messages[Len(messages)].type = "user")
        /\ timers <= 1
        /\ isTyping = (timers = 1)

(* the second submit waits for its answer *)
C21_Witness ==
    /\ chatMounted
    /\ Len(messages) = 4
    /\ isTyping
    /\ timers = 1

(* a panel waits for its answer while the timer of an unmounted panel is
   still pending *)
C21_WitnessOrphan ==
    /\ chatMounted
    /\ isTyping
    /\ timers = 1
    /\ orphans = 1

----------------------------------------------------------------------------
(* C22: the chat panel is shown only to a logged-in user: showCLI implies
   isLoggedIn in every reachable state of the page, also right after a
   configured-mode login or register call returned successfully and after a
   notification with a null session.  handleAuthSuccess sets showCLI before
   any identity has arrived, and nothing sets showCLI to false when the
   identity goes away. *)
C22_CLIOnlyWhenLoggedIn == showCLI => isLoggedIn

----------------------------------------------------------------------------
(* C23: in demo mode, once the mount effect has run, the demo identity in
   memory and the demo_user record agree in every state: both are absent, or
   the record parses to the name and email of the identity. *)
C23_DemoIdentityMatchesRecord ==
    (~isSupabaseConfigured /\ phase # "created") =>
        IF demoUser = Null
        THEN ~HasDemoRecord
        ELSE /\ HasDemoRecord
             /\ JSONparse(localStorage[DemoKey]).name = demoUser.name
             /\ JSONparse(localStorage[DemoKey]).email = demoUser.email

(* the record of an earlier run was read back and a later OAuth login
   replaced both *)
C23_Witness ==
    /\ ~isSupabaseConfigured
    /\ phase = "mounted"
    /\ ev.kind = "return" /\ ev.op = "loginWithOAuth"
    /\ demoUser = ev.demo
    /\ HasDemoRecord
    /\ JSONparse(localStorage[DemoKey]) = demoUser

(* the mount effect read the record of an earlier run *)
C23_WitnessMount ==
    /\ ~isSupabaseConfigured
    /\ ev.kind = "mount"
    /\ demoUser # Null
    /\ demoUser.name = NameQuote

(* logout removed both *)
C23_WitnessLogout ==
    /\ ~isSupabaseConfigured
    /\ ev.kind = "return" /\ ev.op = "logout"
    /\ demoUser = Null /\ ~HasDemoRecord

----------------------------------------------------------------------------
(* session?.user ?? null of the session stored *)
UserOfSession == IF session = Null THEN Null ELSE session.user

(* C24: in every reachable state user is null when session is null and
   session.user otherwise, and a step that changes one of them is the
   getSession response or a notification (or a new page load), which writes
   both. *)
C24_UserMatchesSession ==
    /\ [](user = UserOfSession)
    /\ [][(user' # user \/ session' # session) =>
             /\ ev'.kind \in {"getSession", "notify", "reload"}
             /\ user' = UserOfSession'
             /\ ev'.kind # "reload" => session' = ev'.payload]_vars

(* a notification replaced the session of one user by that of another *)
C24_Witness ==
    /\ ev.kind = "notify"
    /\ session = [access_token |-> "t2", user |-> U2]
    /\ user = U2
    /\ lastCall = NoCall
    /\ showCLI

(* a notification with a null session cleared both *)
C24_WitnessCleared ==
    /\ ev.kind = "notify"
    /\ session = Null /\ user = Null
    /\ showCLI

----------------------------------------------------------------------------
(* C25: the holder's isLoading starts true and, once false, is never set back
   to true by an operation, the getSession response or a notification (a new
   page load starts a new holder, with isLoading true). *)
C25_LoadingMonotone ==
    /\ [](phase = "created" => isLoading)
    /\ [][(~isLoading /\ ev'.kind # "reload") => ~isLoading']_vars

(* loading ended with the failed getSession, then a login call failed *)
C25_Witness ==
    /\ isSupabaseConfigured
    /\ ~isLoading
    /\ getSessionReq = "done"
    /\ lastPayload = NoPayload
    /\ ev.kind = "throw" /\ ev.op = "login"

----------------------------------------------------------------------------
(* the calls in flight that a modal handler made *)
ModalCalls == {i \in DOMAIN inflight : inflight[i].caller \in ModalHandlers}

(* C26: while the modal's isLoading is true no modal handler starts, and at
   most one call made by a modal handler is in flight in every state. *)
C26_OneModalCall ==
    /\ [](Cardinality(ModalCalls) <= 1)
    /\ [][mIsLoading => ev'.invoked \notin ModalHandlers]_vars

(* the modal's call and the navbar's logout call are in flight together *)
C26_Witness ==
    /\ mIsLoading
    /\ Len(inflight) = 2
    /\ Cardinality(ModalCalls) = 1
    /\ \E i \in DOMAIN inflight : inflight[i].caller = "handleLoginClick"

----------------------------------------------------------------------------
(* C27: in configured mode the mount effect leaves the demo identity null
   and isLoggedIn false whatever localStorage holds, and no step of login,
   register, loginWithOAuth or logout changes the demo identity or
   localStorage. *)
C27_ConfiguredIgnoresRecord ==
    [][isSupabaseConfigured =>
          /\ ev'.kind = "mount" =>
                /\ demoUser' = Null
                /\ ~isLoggedIn'
                /\ localStorage' = localStorage
          /\ ev'.op \in FacadeOps => UNCHANGED <<demoUser, localStorage>>]_vars

(* the provider was mounted over the record of an earlier demo-mode run *)
C27_Witness ==
    /\ isSupabaseConfigured
    /\ ev.kind = "mount"
    /\ HasDemoRecord
    /\ demoUser = Null
    /\ ~isLoggedIn

(* logout returned in configured mode and the record is where it was *)
C27_WitnessLogout ==
    /\ isSupabaseConfigured
    /\ ev.kind = "return" /\ ev.op = "logout"
    /\ HasDemoRecord
    /\ demoUser = Null
====
